---- MODULE Spec2Model ----
(***************************************************************************)
(* Model of the two vehicle controllers of this repository:                *)
(*   robot_car_01.py       waypoint pursuit (GPS heading + P steering)      *)
(*   robot_car_auto_02.py  lane following with LIDAR obstacle avoidance     *)
(*                         (RobotCar.control, calcObstacleAngleDist, run1,   *)
(*                          run2)                                           *)
(*                                                                         *)
(* Floating point quantities are fixed-point integers:                      *)
(*   angles            1 unit = 0.0001 rad                                  *)
(*   GPS coordinates   1 unit = 0.01 m                                      *)
(*   LIDAR distances   1 unit = 0.001 m                                     *)
(*   image fractions   1 unit = 0.0001                                      *)
(* Divisions round towards minus infinity (\div).                           *)
(***************************************************************************)
EXTENDS Integers, Sequences, FiniteSets

VARIABLES
    \* ---- robot_car_01.py ----
    gps_values,      \* <<x, y>> returned by gps.getValues() in the last loop iteration
    prev_x, prev_y,  \* reference position of the heading estimate
    car_angle,       \* heading estimate
    wp_idx,          \* waypoint cursor (Unbound until the first non-skipped iteration)
    read_idx,        \* history: index used for targets[wp_idx] in the last non-skipped iteration
    stay_len,        \* history: consecutive non-skipped iterations at the same position
    stay_idx,        \* history: cursor value at the start of that stationary run
    \* ---- actuator (driver) ----
    steer_cmd,       \* last value passed to setSteeringAngle
    speed_cmd,       \* last value passed to setCruisingSpeed
    n_steer,         \* number of setSteeringAngle calls made by the last step
    n_speed,         \* number of setCruisingSpeed calls made by the last step
    \* ---- RobotCar.control called on its own ----
    ctl_in,          \* argument of the last control() call
    \* ---- RobotCar.calcObstacleAngleDist / run2 ----
    lidar_data,      \* range image of the last scan, as <<lo, hi, d>> (see RangeImage)
    obstacle_angle,  \* result of the last calcObstacleAngleDist
    obstacle_dist,
    step,            \* run2: base step counter
    memory_timer,    \* run2: ticks the stored repulsive value stays valid
    repulsive_memory,\* run2: stored repulsive value
    integral,        \* PID state
    prev_error,      \* PID state
    attractive_steer,\* run2: locals of the last sensing tick
    repulsive_steer,
    total_steer,
    branch,          \* run2: branch of the repulsive computation taken by the last sensing tick
    live_r,          \* history: repulsive value computed at the last live obstacle
    lost_ticks,      \* history: sensing ticks without any obstacle since the last live obstacle
    ever_found,      \* history: the scanner has reported an obstacle on some tick
    \* ---- run1 ----
    mode,            \* which main loop main() started: "run1", "run2", or "none"
    avoid_timer,     \* run1: remaining avoidance ticks
    lane_steer,      \* run1: steering_angle = maFilter(calcSteeringAngle(..)) of the last sensing tick
    r1_branch,       \* run1: branch of the command section taken by the last sensing tick
    trig_dir,        \* history: direction away from the obstacle that last set avoid_timer
    since_trig       \* history: sensing ticks since avoid_timer was last set, that tick included

wp_vars   == <<gps_values, prev_x, prev_y, car_angle, wp_idx, read_idx, stay_len, stay_idx>>
act_vars  == <<steer_cmd, speed_cmd, n_steer, n_speed>>
scan_vars == <<lidar_data, obstacle_angle, obstacle_dist>>
run_vars  == <<step, memory_timer, repulsive_memory, integral, prev_error,
               attractive_steer, repulsive_steer, total_steer, branch,
               live_r, lost_ticks, ever_found>>
run1_vars == <<mode, avoid_timer, lane_steer, r1_branch, trig_dir, since_trig>>
vars      == <<wp_vars, act_vars, ctl_in, scan_vars, run_vars, run1_vars>>

----------------------------------------------------------------------------
(* Numbers *)

NaN == -2000000000          \* float('nan'): every comparison with it is false
PI == 31416
HALF_PI == 15708

Abs(a) == IF a < 0 THEN -a ELSE a
Min(a, b) == IF a < b THEN a ELSE b
Max(a, b) == IF a > b THEN a ELSE b

isnan(a) == a = NaN
FSub(a, b) == IF isnan(a) \/ isnan(b) THEN NaN ELSE a - b
FAbs(a) == IF isnan(a) THEN NaN ELSE Abs(a)
FGt(a, b) == ~isnan(a) /\ ~isnan(b) /\ a > b
FLt(a, b) == ~isnan(a) /\ ~isnan(b) /\ a < b

\* atan(z / 10000) for 0 <= z <= 10000, error below 0.004 rad
AtanUnit(z) == (z * (7854 + (2730 * (10000 - z)) \div 10000)) \div 10000

\* math.atan2(y, x), result in (-PI, PI]
atan2(y, x) ==
    IF isnan(y) \/ isnan(x) THEN NaN
    ELSE IF x = 0 /\ y = 0 THEN 0
    ELSE LET ax == Abs(x)
             ay == Abs(y)
             a0 == AtanUnit((Min(ax, ay) * 10000) \div Max(ax, ay))
             a1 == IF ay > ax THEN HALF_PI - a0 ELSE a0
             a2 == IF x < 0 THEN PI - a1 ELSE a1
         IN  IF y < 0 THEN -a2 ELSE a2

\* math.sin(a) for |a| <= 1 rad (the scanner only sees |a| <= 0.35), sin a = a - a^3/6
sin(a) == a - (((a * a) \div 10000) * a) \div 60000

----------------------------------------------------------------------------
(* robot_car_01.py: waypoint pursuit *)

Unbound == -1               \* 'wp_idx' not in locals()

targets_close == << <<-9800, 2400>>, <<-9800, 2600>>, <<-8300, -10000>>, <<4000, -9500>>,
                    <<4500, 500>>, <<1500, 3500>>, <<-5400, 4500>> >>
targets == << <<-9800, 2400>>, <<-10700, -3300>>, <<-8300, -10000>>, <<4000, -9500>>,
              <<4500, 500>>, <<1500, 3500>>, <<-5400, 4500>> >>

MOVE_EPS == 1               \* 0.01
ARRIVE_DIST == 500          \* 5
MaxStay == 3

\* GPS readings: no fix, each waypoint, and points around the first waypoint
GpsFixes ==
    { targets[i] : i \in 1..Len(targets) } \cup
    { <<-9500, 2800>>,      \* exactly 5 m from targets[0]
      <<-9799, 2700>>,      \* 0.01 m east, 3 m north of targets[0]
      <<-9798, 2400>> }     \* 0.02 m east of targets[0]
GpsValues == GpsFixes \cup { <<NaN, NaN>> }

\* line 30: if math.isnan(values[0]): continue
NanGate_off(values) == FALSE
NanGate(values) == isnan(values[1])

\* line 36: abs(x1 - prev_x) > 0.01
Moved_ge(x1, px) == LET d == FAbs(FSub(x1, px)) IN ~isnan(d) /\ d >= MOVE_EPS
Moved(x1, px) == FGt(FAbs(FSub(x1, px)), MOVE_EPS)

\* lines 52, 55: math.sqrt(dx**2 + dy**2) < 5, compared on the squares
Arrived_le(x1, y1, way_point) ==
    /\ ~isnan(x1) /\ ~isnan(y1)
    /\ (x1 - way_point[1]) * (x1 - way_point[1]) + (y1 - way_point[2]) * (y1 - way_point[2])
          <= ARRIVE_DIST * ARRIVE_DIST
Arrived(x1, y1, way_point) ==
    /\ ~isnan(x1) /\ ~isnan(y1)
    /\ (x1 - way_point[1]) * (x1 - way_point[1]) + (y1 - way_point[2]) * (y1 - way_point[2])
          < ARRIVE_DIST * ARRIVE_DIST

\* line 56
NextIdx(idx) == (idx + 1) % Len(targets)

\* lines 60-61: 0.5 * -diff
SteerOf(diff) == IF isnan(diff) THEN NaN ELSE (0 - diff) \div 2

\* lines 15-16, 22-23; no GPS value has been read and wp_idx does not exist yet
InitWP ==
    /\ gps_values = <<NaN, NaN>>
    /\ prev_x = 0 /\ prev_y = 0
    /\ car_angle = 0
    /\ wp_idx = Unbound
    /\ read_idx = Unbound
    /\ stay_len = 0 /\ stay_idx = Unbound

InitAct1 ==
    /\ steer_cmd = 0 /\ speed_cmd = 20
    /\ n_steer = 0 /\ n_speed = 0

\* one iteration of the while loop, lines 28-61
WPStep ==
    /\ \E values \in GpsValues :
        /\ gps_values' = values
        /\ IF NanGate(values)
           THEN /\ UNCHANGED <<prev_x, prev_y, car_angle, wp_idx, read_idx, stay_idx,
                               steer_cmd, speed_cmd>>
                /\ stay_len' = 0
                /\ n_steer' = 0 /\ n_speed' = 0
           ELSE LET x1 == values[1]
                    y1 == values[2]
                    moved == Moved(x1, prev_x)
                    angle == IF moved THEN atan2(FSub(y1, prev_y), FSub(x1, prev_x))
                                      ELSE car_angle
                    idx == IF wp_idx = Unbound THEN 0 ELSE wp_idx
                    way_point == targets[idx + 1]
                    target_angle == atan2(FSub(way_point[2], y1), FSub(way_point[1], x1))
                    diff == FSub(target_angle, angle)
                    same == stay_len >= 1 /\ values = gps_values
                IN  /\ car_angle' = angle
                    /\ prev_x' = IF moved THEN x1 ELSE prev_x
                    /\ prev_y' = IF moved THEN y1 ELSE prev_y
                    /\ read_idx' = idx
                    /\ wp_idx' = IF Arrived(x1, y1, way_point) THEN NextIdx(idx) ELSE idx
                    /\ steer_cmd' = SteerOf(diff)
                    /\ n_steer' = 1 /\ n_speed' = 0
                    /\ UNCHANGED speed_cmd
                    /\ stay_len' = IF same THEN Min(stay_len + 1, MaxStay) ELSE 1
                    /\ stay_idx' = IF same THEN stay_idx ELSE idx
    /\ UNCHANGED <<ctl_in, scan_vars, run_vars, run1_vars>>

----------------------------------------------------------------------------
(* robot_car_auto_02.py: RobotCar *)

SPEED == 60
UNKNOWN_ANGLE == 999999900  \* UNKNOWN = 99999.99 as an angle
UNKNOWN_DIST == 99999990    \* UNKNOWN = 99999.99 as a distance
TIME_STEP == 30
BASIC_TIME_STEP == 10
CAR_WIDTH == 2015
LIMIT_ANGLE == 5000

\* RobotCar.control: the value it passes to setSteeringAngle
control_nolower(steering_angle) ==
    IF steering_angle > LIMIT_ANGLE THEN LIMIT_ANGLE ELSE steering_angle
control(steering_angle) ==
    IF steering_angle > LIMIT_ANGLE THEN LIMIT_ANGLE
    ELSE IF steering_angle < -LIMIT_ANGLE THEN -LIMIT_ANGLE
    ELSE steering_angle

\* RobotCar.maFilter: the average over self.history is computed and dropped,
\* the argument is returned as it came
maFilter(new_value) == new_value

(* LIDAR: Sick LMS 291 *)
lidar_width == 180
lidar_fov == 31416
lidar_range == 80000
OBSTACLE_HALF_ANGLE == 20
OBSTACLE_DIST_MAX == 20000
OBSTACLE_MARGIN == 100

WinLo == lidar_width \div 2 - OBSTACLE_HALF_ANGLE
WinHi == lidar_width \div 2 + OBSTACLE_HALF_ANGLE      \* exclusive

\* the loop of lines 255-265 over i in lo..hi-1: <<sumx, collision_count, obstacle_dist>>
RECURSIVE ScanLoop(_, _, _)
ScanLoop(data, i, hi) ==
    IF i >= hi THEN <<0, 0, 0>>
    ELSE LET rest == ScanLoop(data, i + 1, hi)
         IN  IF data[i] < OBSTACLE_DIST_MAX
             THEN <<rest[1] + i, rest[2] + 1, rest[3] + data[i]>>
             ELSE rest

\* RobotCar.calcObstacleAngleDist: <<obstacle_angle, obstacle_dist>>
calcObstacleAngleDist(data) ==
    LET acc == ScanLoop(data, WinLo, WinHi)
        sumx == acc[1]
        collision_count == acc[2]
        dist_sum == acc[3]
    IN  IF collision_count = 0 \/ dist_sum > collision_count * OBSTACLE_DIST_MAX
        THEN <<UNKNOWN_ANGLE, UNKNOWN_DIST>>
        ELSE LET \* (sumx / collision_count / lidar_width - 0.5) * lidar_fov
                 angle == ((2 * sumx - collision_count * lidar_width) * lidar_fov)
                              \div (2 * collision_count * lidar_width)
                 dist == dist_sum \div collision_count
             IN  \* abs(dist * sin(angle)) < 0.5 * CAR_WIDTH + OBSTACLE_MARGIN, doubled
                 IF 2 * Abs(dist * sin(angle)) < (CAR_WIDTH + 2 * OBSTACLE_MARGIN) * 10000
                 THEN <<angle, dist>>
                 ELSE <<UNKNOWN_ANGLE, UNKNOWN_DIST>>

\* A range image is given as <<lo, hi, d>>: the rays lo..hi-1 return distance d,
\* every other ray returns lidar_range (nothing in range)
RangeImage(scan) ==
    [i \in 0..(lidar_width - 1) |-> IF scan[1] <= i /\ i < scan[2] THEN scan[3] ELSE lidar_range]
NoScan == <<0, 0, lidar_range>>
WindowAt3m == <<WinLo, WinHi, 3000>>

ScanLos == {60, 70, 85, 90, 92, 100}
ScanHis == {71, 91, 110, 120}
ScanDists == {50, 2000, 3000, 15000, 19999, 20000}
Scans == (ScanLos \X ScanHis \X ScanDists) \cup {NoScan}

InitAct2 ==
    /\ steer_cmd = 0 /\ speed_cmd = SPEED
    /\ n_steer = 0 /\ n_speed = 0

InitScanVars ==
    /\ lidar_data = NoScan
    /\ obstacle_angle = UNKNOWN_ANGLE
    /\ obstacle_dist = UNKNOWN_DIST

(* control called with any argument *)
MaxK == 60
ControlInputs == { 100 * k : k \in (-MaxK)..MaxK } \cup {-5001, -4999, 4999, 5001}

ControlCall ==
    /\ \E x \in ControlInputs :
        /\ ctl_in' = x
        /\ steer_cmd' = control(x)
    /\ n_steer' = 1 /\ n_speed' = 0
    /\ UNCHANGED <<wp_vars, speed_cmd, scan_vars, run_vars, run1_vars>>

(* calcObstacleAngleDist called with any range image *)
ScanCall ==
    /\ \E data \in Scans :
       \E od \in { calcObstacleAngleDist(RangeImage(data)) } :
        /\ lidar_data' = data
        /\ obstacle_angle' = od[1]
        /\ obstacle_dist' = od[2]
    /\ n_steer' = 0 /\ n_speed' = 0
    /\ UNCHANGED <<wp_vars, steer_cmd, speed_cmd, ctl_in, run_vars, run1_vars>>

----------------------------------------------------------------------------
(* RobotCar.run2: potential field *)

camera_width == 128
camera_fov == 10000
TARGET_POS == 2500
UNKNOWN_STEER == 999999900  \* UNKNOWN = 99999.99 returned by calcSteeringAngle
LOST_STEER == -3000         \* attractive_steer = -0.3
OBS_AVOID_DIST == 10000
K_REP == 3
MEMORY_TICKS == 50
MIN_SAFE_DIST == 100        \* max(obstacle_dist, 0.1)
SLOW_STEER == 1000          \* abs(total_steer) > 0.1

MaxStep == 160
MaxIntegral == 1300

\* the pixel loop of calcSteeringAngle (lines 166-173) leaves <<sumx, pixel_count>>;
\* an image is given by that pair
Images == { <<0, 0>>, <<32, 1>>, <<40, 1>> }

\* RobotCar.calcSteeringAngle: <<steer_angle, self.integral, self.prev_error>>
calcSteeringAngle(image, integ, perr) ==
    IF image[2] = 0
    THEN <<UNKNOWN_STEER, integ, perr>>
    ELSE LET y_ave == (image[1] * 10000) \div (image[2] * camera_width)
             error == y_ave - TARGET_POS
             integ2 == integ + error
             diff_error == error - perr
             \* Ki = 0.01, Kd = 2.0
             steer_angle == (error * camera_fov) \div 10000 + integ2 \div 100 + 2 * diff_error
         IN  <<steer_angle, integ2, error>>

\* line 434: obstacle_dist != self.UNKNOWN and obstacle_dist < OBS_AVOID_DIST
Live_nothreshold(dist) == dist # UNKNOWN_DIST
Live(dist) == dist # UNKNOWN_DIST /\ dist < OBS_AVOID_DIST

\* lines 438-445: direction * K_REP * (1.0 / safe_dist), direction = -0.5 or 0.5
Repulsive(angle, dist) ==
    LET safe_dist == Max(dist, MIN_SAFE_DIST)
        mag == (5000 * K_REP * 1000) \div safe_dist
    IN  IF angle >= 0 THEN 0 - mag ELSE mag

\* line 452: elif memory_timer > 0
MemoryValid_ge(timer) == timer >= 0
MemoryValid(timer) == timer > 0

\* line 450
MemoryStart_short == MEMORY_TICKS - 1
MemoryStart == MEMORY_TICKS

\* the scanner's answer is an obstacle
Found(dist) == dist # UNKNOWN_DIST

Run2Scans == { NoScan, WindowAt3m, <<92, 110, 2000>>, <<70, 110, 15000>> }

InitRun2 ==
    /\ step = -1
    /\ memory_timer = 0
    /\ repulsive_memory = 0      \* unbound until line 449 runs; never read while memory_timer = 0
    /\ integral = 0 /\ prev_error = 0
    /\ attractive_steer = 0 /\ repulsive_steer = 0 /\ total_steer = 0
    /\ branch = "none"
    /\ live_r = 0 /\ lost_ticks = -1
    /\ ever_found = FALSE

\* one iteration of the while loop of run2, lines 396-478
Run2Step ==
    /\ step < MaxStep
    /\ step' = step + 1
    /\ IF (step + 1) % (TIME_STEP \div BASIC_TIME_STEP) # 0
       THEN /\ n_steer' = 0 /\ n_speed' = 0
            /\ UNCHANGED <<steer_cmd, speed_cmd, scan_vars, memory_timer, repulsive_memory,
                           integral, prev_error, attractive_steer, repulsive_steer,
                           total_steer, branch, live_r, lost_ticks, ever_found>>
       ELSE \E data \in Run2Scans :
            \E od \in { calcObstacleAngleDist(RangeImage(data)) } :
            \E image \in Images :
            \E pid \in { calcSteeringAngle(image, integral, prev_error) } :
            LET camera_steering == maFilter(pid[1])
                attr == IF camera_steering # UNKNOWN_STEER THEN camera_steering ELSE LOST_STEER
                live == Live(od[2])
                useMem == ~live /\ MemoryValid(memory_timer)
                rep == IF live THEN Repulsive(od[1], od[2])
                       ELSE IF useMem THEN repulsive_memory
                       ELSE 0
                total == attr + rep
            IN  /\ Abs(pid[2]) <= MaxIntegral
                /\ lidar_data' = data
                /\ obstacle_angle' = od[1]
                /\ obstacle_dist' = od[2]
                /\ integral' = pid[2]
                /\ prev_error' = pid[3]
                /\ attractive_steer' = attr
                /\ repulsive_steer' = rep
                /\ repulsive_memory' = IF live THEN rep ELSE repulsive_memory
                /\ memory_timer' = IF live THEN MemoryStart
                                   ELSE IF useMem THEN memory_timer - 1
                                   ELSE memory_timer
                /\ branch' = IF live THEN "live" ELSE IF useMem THEN "memory" ELSE "zero"
                /\ total_steer' = total
                /\ speed_cmd' = IF Abs(total) > SLOW_STEER THEN SPEED \div 2 ELSE SPEED
                /\ n_speed' = 1
                /\ steer_cmd' = control(total)
                /\ n_steer' = 1
                /\ live_r' = IF live THEN rep ELSE live_r
                /\ lost_ticks' = IF live THEN 0
                                 ELSE IF Found(od[2]) \/ lost_ticks < 0 THEN -1
                                 ELSE lost_ticks + 1
                /\ ever_found' = (ever_found \/ Found(od[2]))
    /\ UNCHANGED <<wp_vars, ctl_in, run1_vars>>

----------------------------------------------------------------------------
(* RobotCar.run1: discrete avoidance *)

STOP_DIST == 5000
AVOID_TICKS == 10
FLIP_BELOW == 4             \* if avoid_timer < 4
CURVE_STEER == 500          \* abs(steering_angle) > 0.05
MaxSince == 11

\* lines 323, 401: step % int(self.TIME_STEP / BASIC_TIME_STEP) == 0
Sensing_every(s) == TRUE
Sensing(s) == s % (TIME_STEP \div BASIC_TIME_STEP) = 0

\* lines 362-365: direction away from the obstacle, from the bearing of this tick
Direction(angle) == IF angle >= 0 THEN -5000 ELSE 5000

InitRun1 ==
    /\ avoid_timer = 0
    /\ lane_steer = 0
    /\ r1_branch = "none"
    /\ trig_dir = 0 /\ since_trig = 0

\* one iteration of the while loop of run1, lines 318-385
Run1Step ==
    /\ step < MaxStep
    /\ step' = step + 1
    /\ IF ~Sensing(step + 1)
       THEN /\ n_steer' = 0 /\ n_speed' = 0
            /\ UNCHANGED <<steer_cmd, speed_cmd, scan_vars, integral, prev_error,
                           avoid_timer, lane_steer, r1_branch, trig_dir, since_trig>>
       ELSE \E data \in Run2Scans :
            \E od \in { calcObstacleAngleDist(RangeImage(data)) } :
            \E image \in Images :
            \E pid \in { calcSteeringAngle(image, integral, prev_error) } :
            LET trigger == od[2] < STOP_DIST
                timer1 == IF trigger THEN AVOID_TICKS ELSE avoid_timer
                steer == maFilter(pid[1])
                avoiding == timer1 > 0
                timer2 == IF avoiding THEN timer1 - 1 ELSE timer1
                direction == Direction(od[1])
            IN  /\ Abs(pid[2]) <= MaxIntegral
                /\ lidar_data' = data
                /\ obstacle_angle' = od[1]
                /\ obstacle_dist' = od[2]
                /\ integral' = pid[2]
                /\ prev_error' = pid[3]
                /\ lane_steer' = steer
                /\ avoid_timer' = timer2
                /\ IF avoiding
                   THEN /\ r1_branch' = "avoid"
                        /\ speed_cmd' = SPEED \div 2
                        /\ n_speed' = 1
                        /\ steer_cmd' = IF timer2 < FLIP_BELOW THEN control(0 - direction)
                                                               ELSE control(direction)
                        /\ n_steer' = 1
                   ELSE IF steer # UNKNOWN_STEER
                   THEN /\ r1_branch' = "line"
                        /\ speed_cmd' = IF Abs(steer) > CURVE_STEER THEN SPEED \div 2 ELSE SPEED
                        /\ n_speed' = 1
                        /\ steer_cmd' = control(steer)
                        /\ n_steer' = 1
                   ELSE /\ r1_branch' = "lost"
                        /\ speed_cmd' = 0
                        /\ n_speed' = 1
                        /\ UNCHANGED steer_cmd
                        /\ n_steer' = 0
                /\ trig_dir' = IF trigger THEN direction ELSE trig_dir
                /\ since_trig' = IF trigger THEN 1
                                 ELSE IF since_trig = 0 THEN 0
                                 ELSE Min(since_trig + 1, MaxSince)
    /\ UNCHANGED <<wp_vars, ctl_in, mode, memory_timer, repulsive_memory, attractive_steer,
                   repulsive_steer, total_steer, branch, live_r, lost_ticks, ever_found>>

\* main(): the loop that was started runs
LaneRun1 == mode = "run1" /\ Run1Step
LaneRun2 == mode = "run2" /\ Run2Step

----------------------------------------------------------------------------
(* Specifications *)

\* robot_car_01.py
InitSpecWP ==
    InitWP /\ InitAct1 /\ ctl_in = 0 /\ InitScanVars /\ InitRun2 /\ InitRun1 /\ mode = "none"
SpecWP == InitSpecWP /\ [][WPStep]_vars

\* RobotCar.control on every argument
InitSpecControl ==
    /\ InitWP /\ InitAct2 /\ InitScanVars /\ InitRun2 /\ InitRun1 /\ mode = "none"
    /\ ctl_in \in ControlInputs
SpecControl == InitSpecControl /\ [][ControlCall]_vars

\* RobotCar.calcObstacleAngleDist on every range image
InitSpecScan ==
    InitWP /\ InitAct2 /\ InitScanVars /\ InitRun2 /\ InitRun1 /\ mode = "none" /\ ctl_in = 0
SpecScan == InitSpecScan /\ [][ScanCall]_vars

\* RobotCar.run2
InitSpecRun2 ==
    InitWP /\ InitAct2 /\ InitScanVars /\ InitRun2 /\ InitRun1 /\ mode = "run2" /\ ctl_in = 0
SpecRun2 == InitSpecRun2 /\ [][Run2Step]_vars

\* RobotCar.run1
InitSpecRun1 ==
    InitWP /\ InitAct2 /\ InitScanVars /\ InitRun2 /\ InitRun1 /\ mode = "run1" /\ ctl_in = 0
SpecRun1 == InitSpecRun1 /\ [][Run1Step]_vars

\* main() with either loop
InitSpecLane ==
    /\ InitWP /\ InitAct2 /\ InitScanVars /\ InitRun2 /\ InitRun1 /\ ctl_in = 0
    /\ mode \in {"run1", "run2"}
NextLane == LaneRun1 \/ LaneRun2
SpecLane == InitSpecLane /\ [][NextLane]_vars

----------------------------------------------------------------------------
(* Properties *)

\* C1: every value passed to setSteeringAngle lies in [-0.5, 0.5] rad.
\* Stated for the waypoint pursuit loop, which passes 0.5 * -diff as it is.
C1_SteeringWithinLimit ==
    n_steer = 1 => (steer_cmd >= -5000 /\ steer_cmd <= 5000)

\* C2: control(x) emits exactly one steering angle a, with a = x when |x| <= 0.5,
\* a = 0.5 when x > 0.5 and a = -0.5 when x < -0.5.
C2_ControlClamps ==
    /\ n_steer \in {0, 1}
    /\ n_steer = 1 =>
          /\ (ctl_in >= -5000 /\ ctl_in <= 5000) => steer_cmd = ctl_in
          /\ ctl_in > 5000 => steer_cmd = 5000
          /\ ctl_in < -5000 => steer_cmd = -5000

C2_Witness == n_steer = 1 /\ ctl_in = -5000 /\ steer_cmd = -5000

\* C3: after a live obstacle produced r and set the timer to 50, while no obstacle
\* is found the repulsive term is r (nonzero) on the next 50 sensing ticks and 0
\* from the 51st on.
C3_MemoryLasts50 ==
    /\ lost_ticks = 0 => (repulsive_steer = live_r /\ memory_timer = 50)
    /\ (lost_ticks >= 1 /\ lost_ticks <= 50) => (repulsive_steer = live_r /\ live_r # 0)
    /\ lost_ticks >= 51 => repulsive_steer = 0

C3_Witness == lost_ticks = 51 /\ repulsive_steer = 0 /\ live_r # 0

\* C4 as claimed: the stored value is used only on ticks where the scanner
\* reports no obstacle, and an obstacle report always (re)sets the memory;
\* memory_timer stays within 0..50.
C4_Original ==
    /\ branch = "memory" => obstacle_dist = UNKNOWN_DIST
    /\ (branch # "none" /\ obstacle_dist # UNKNOWN_DIST) =>
          (branch = "live" /\ memory_timer = 50)
    /\ memory_timer >= 0 /\ memory_timer <= 50

\* C4 amended: the stored value is used only on ticks where the timer was
\* positive and there is no live obstacle (nothing reported, or an obstacle at
\* 10 m or more); an obstacle reported nearer than 10 m (re)sets the memory
\* instead of consulting or decrementing it; memory_timer stays within 0..50.
C4_MemoryUse ==
    /\ branch = "memory" =>
          /\ obstacle_dist = UNKNOWN_DIST \/ obstacle_dist >= 10000
          /\ memory_timer >= 0 /\ memory_timer <= 49
          /\ repulsive_steer = repulsive_memory
    /\ (branch # "none" /\ obstacle_dist # UNKNOWN_DIST /\ obstacle_dist < 10000) =>
          /\ branch = "live"
          /\ memory_timer = 50
          /\ repulsive_memory = repulsive_steer
    /\ branch = "live" => (obstacle_dist # UNKNOWN_DIST /\ obstacle_dist < 10000)
    /\ branch = "zero" => (memory_timer = 0 /\ repulsive_steer = 0)
    /\ memory_timer >= 0 /\ memory_timer <= 50

C4_Witness ==
    branch = "memory" /\ obstacle_dist # UNKNOWN_DIST /\ memory_timer < 49 /\ repulsive_steer # 0

\* C5: while the scanner has never reported an obstacle, the memory timer is 0,
\* the repulsive term is 0 and the combined steering is the attractive term.
C5_NoObstacleNoRepulsion ==
    ~ever_found =>
        /\ memory_timer = 0
        /\ repulsive_steer = 0
        /\ total_steer = attractive_steer

C5_Witness ==
    ~ever_found /\ step >= 30 /\ n_steer = 1 /\ attractive_steer # 0 /\ total_steer = attractive_steer

\* C6: on each non-skipped iteration the cursor read is the current cursor (0 if
\* none exists yet); it becomes (cursor + 1) mod len(targets) exactly when the
\* distance to targets[cursor] is below 5, stays otherwise, and is within
\* 0..len(targets)-1 afterwards.
C6_Cursor ==
    [][ ~isnan(gps_values'[1]) =>
          LET cur == IF wp_idx = Unbound THEN 0 ELSE wp_idx
              dx == gps_values'[1] - targets[cur + 1][1]
              dy == gps_values'[2] - targets[cur + 1][2]
          IN  /\ read_idx' = cur
              /\ wp_idx' >= 0 /\ wp_idx' < Len(targets)
              /\ (dx * dx + dy * dy < 250000) => wp_idx' = (cur + 1) % Len(targets)
              /\ (dx * dx + dy * dy >= 250000) => wp_idx' = cur
      ]_vars

C6_Witness == read_idx = Len(targets) - 1 /\ wp_idx = 0 /\ ~isnan(gps_values[1])

\* C7: while the position stays at a point within 5 of the waypoint that was
\* current when it got there, repeated iterations move the cursor one step in
\* total; no point is within 5 of two consecutive waypoints.
C7_AdvanceOnce ==
    /\ \A i \in 1..Len(targets) :
          LET a == targets[i]
              b == targets[(i % Len(targets)) + 1]
          IN  (a[1] - b[1]) * (a[1] - b[1]) + (a[2] - b[2]) * (a[2] - b[2]) >= 1000 * 1000
    /\ (/\ stay_len >= 1
        /\ LET t == targets[stay_idx + 1]
           IN  (gps_values[1] - t[1]) * (gps_values[1] - t[1])
                 + (gps_values[2] - t[2]) * (gps_values[2] - t[2]) < 250000)
       => wp_idx = (stay_idx + 1) % Len(targets)

C7_Witness ==
    /\ stay_len = 3
    /\ stay_idx = 6
    /\ gps_values = targets[7]
    /\ wp_idx = 0

C9_WindowAt3m ==
    lidar_data = <<70, 110, 3000>> =>
        /\ obstacle_dist = 3000
        /\ obstacle_angle = 0

\* C10: an iteration whose GPS value is NaN issues no steering and no speed
\* command and leaves heading, reference position and cursor unchanged.
C10_NanSkipped ==
    [][ isnan(gps_values'[1]) =>
          /\ n_steer' = 0 /\ n_speed' = 0
          /\ UNCHANGED <<car_angle, prev_x, prev_y, wp_idx, steer_cmd, speed_cmd>>
      ]_vars

C10_Witness ==
    /\ isnan(gps_values[1])
    /\ wp_idx = 3
    /\ car_angle # 0
    /\ n_steer = 0

C12_AvoidanceShape ==
    /\ (since_trig >= 1 /\ since_trig <= 6) =>
          (r1_branch = "avoid" /\ steer_cmd = trig_dir /\ speed_cmd = 30)
    /\ (since_trig >= 7 /\ since_trig <= 10) =>
          (r1_branch = "avoid" /\ steer_cmd = 0 - trig_dir /\ speed_cmd = 30)
    /\ since_trig >= 11 => r1_branch # "avoid"

====
